---------------------------- MODULE Spec2Model ----------------------------
(***************************************************************************)
(* A model of the saftvrmie package: the Mie potential, the Sutherland     *)
(* term, the Carnahan-Starling hard-sphere model and the SAFT-VR Mie       *)
(* perturbation engine, with the numpy array operations the methods are    *)
(* written in (shapes, broadcasting, transposition, matmul, slices).       *)
(*                                                                         *)
(* Numbers.  A Python int (an exponent) is a TLA+ integer.  A float is     *)
(* modelled exactly, as the residue modulo the prime P of the rational it  *)
(* denotes: a decimal literal m * 10^-s is m / 10^s in the field, and sums,*)
(* products, quotients and integer powers are taken in the field.  Two     *)
(* expressions that are equal as rational functions of their inputs give   *)
(* the same residue; rounding is not modelled.  Two elements outside the   *)
(* field stand for the IEEE values NaN and infinity (unsigned).  np.exp is *)
(* its Taylor polynomial of degree ExpDegree.                              *)
(*                                                                         *)
(* Errors.  A division of Python scalars by zero raises ZeroDivisionError: *)
(* a method that raises returns the record Raise(..) instead of a value.   *)
(* A division of numpy arrays by zero raises nothing and gives NaN or      *)
(* infinity in the entry.                                                  *)
(***************************************************************************)
EXTENDS Integers, Sequences, FiniteSets, TLC

\* ------------------------------------------------------------------------
\* Scalars: the field of residues and the two IEEE specials
\* ------------------------------------------------------------------------

\* The modulus of the residue field (a prime below 2^15, so that a product of
\* two residues stays within TLC's integers).
P == 2^15 - 19

\* IEEE not-a-number and (unsigned) infinity.
NaN == P
Inf == P + 1

IsNaN(x) == x = NaN
IsFinite(x) == x < P

\* A Python int as a float.
F(n) == n % P

RECURSIVE PowNat(_, _)
\* x^n for a natural n, by squaring.
PowNat(x, n) ==
    IF n = 0 THEN 1
    ELSE IF n % 2 = 1 THEN (x * PowNat(x, n - 1)) % P
    ELSE PowNat((x * x) % P, n \div 2)

\* The inverses of the nonzero residues, x^(P-2), tabulated once.
InvTable == SubSeq([x \in 1..(P - 1) |-> PowNat(x, P - 2)], 1, P - 1)

\* 1/x for a nonzero residue.
Inv(x) == InvTable[x]

\* The decimal literal m * 10^-s.
Dec(m, s) == (F(m) * Inv(PowNat(10, s))) % P

\* IEEE arithmetic on finite values, NaN and Inf.
FAdd(a, b) ==
    IF a = NaN \/ b = NaN THEN NaN
    ELSE IF a = Inf /\ b = Inf THEN NaN
    ELSE IF a = Inf \/ b = Inf THEN Inf
    ELSE (a + b) % P

FNeg(a) == IF a >= P THEN a ELSE (P - a) % P

FSub(a, b) == FAdd(a, FNeg(b))

FMul(a, b) ==
    IF a = NaN \/ b = NaN THEN NaN
    ELSE IF a = Inf \/ b = Inf THEN (IF a = 0 \/ b = 0 THEN NaN ELSE Inf)
    ELSE (a * b) % P

\* numpy's true division: x/0 is NaN for x = 0 and infinite otherwise, with
\* a warning and no exception.
FDiv(a, b) ==
    IF a = NaN \/ b = NaN THEN NaN
    ELSE IF a = Inf THEN (IF b = Inf THEN NaN ELSE Inf)
    ELSE IF b = Inf THEN 0
    ELSE IF b = 0 THEN (IF a = 0 THEN NaN ELSE Inf)
    ELSE (a * Inv(b)) % P

\* x ** n for a Python int n of either sign (x ** 0 is 1 for every x).
FPow(x, n) ==
    IF n = 0 THEN 1
    ELSE IF x = NaN THEN NaN
    ELSE IF x = Inf THEN (IF n > 0 THEN Inf ELSE 0)
    ELSE IF n > 0 THEN PowNat(x, n)
    ELSE IF x = 0 THEN Inf
    ELSE Inv(PowNat(x, 0 - n))

\* The degree of the Taylor polynomial that stands for np.exp.
ExpDegree == 3

RECURSIVE ExpSeries(_, _)
ExpSeries(x, k) ==
    IF k = 0 THEN 1
    ELSE FAdd(1, FMul(FDiv(x, F(ExpDegree - k + 1)), ExpSeries(x, k - 1)))

\* np.exp on one value: the Horner form of sum x^k / k!, k = 0..ExpDegree.
FExp(x) ==
    IF x = NaN THEN NaN
    ELSE IF x = Inf THEN Inf
    ELSE ExpSeries(x, ExpDegree)

\* ------------------------------------------------------------------------
\* Exceptions
\* ------------------------------------------------------------------------

Raise(e) == [raise |-> e]
IsRaise(r) == "raise" \in DOMAIN r

\* ------------------------------------------------------------------------
\* numpy arrays: a shape and the entries in row-major order.  A Python or
\* numpy scalar is the array of shape <<>>.
\* ------------------------------------------------------------------------

Scalar(x) == [shape |-> <<>>, v |-> <<x>>]
Vec(s) == [shape |-> <<Len(s)>>, v |-> s]
Mat(r, c, s) == [shape |-> <<r, c>>, v |-> s]

NDim(a) == Len(a.shape)
\* The shape read as two axes, as broadcasting does: (n,) is (1, n).
NRows(a) == IF Len(a.shape) = 2 THEN a.shape[1] ELSE 1
NCols(a) == IF Len(a.shape) = 0 THEN 1 ELSE a.shape[Len(a.shape)]
View(a) == [r |-> NRows(a), c |-> NCols(a), v |-> a.v]

\* The argument with no isinstance guard: a Python float stays a float.
Unguarded(a) == a

\* np.array([x]) for a Python float x, and an array as it is (the
\* isinstance guards of the methods).
AsArray(a) == IF NDim(a) = 0 THEN Vec(a.v) ELSE a

\* Entry (i, j) of the view x, an axis of length 1 being stretched.
Stretch(x, i, j) ==
    x.v[(IF x.r = 1 THEN 0 ELSE (i - 1) * x.c) + (IF x.c = 1 THEN 1 ELSE j)]

\* Entry (i, j) of a two-axes array.
At2(a, i, j) == a.v[(i - 1) * a.shape[2] + j]

BDim(m, n) == IF m = 1 THEN n ELSE m
BOk(m, n) == m = n \/ m = 1 \/ n = 1
BShape(nd, r, c) == IF nd = 0 THEN <<>> ELSE IF nd = 1 THEN <<c>> ELSE <<r, c>>
Max(m, n) == IF m > n THEN m ELSE n

\* x op y on two floats, for the operators +, -, *, / and **.
Apply2(op, x, y) ==
    CASE op = "+" -> FAdd(x, y)
      [] op = "-" -> FSub(x, y)
      [] op = "*" -> FMul(x, y)
      [] op = "/" -> FDiv(x, y)
      [] op = "**" -> FPow(x, y)

\* The r * c entries of x op y, both stretched to r rows and c columns.
BinRC(op, x, y, r, c) ==
    SubSeq([k \in 1..(r * c) |->
               Apply2(op, Stretch(x, ((k - 1) \div c) + 1, ((k - 1) % c) + 1),
                          Stretch(y, ((k - 1) \div c) + 1, ((k - 1) % c) + 1))],
           1, r * c)

\* a op b elementwise under numpy's broadcasting rule.
Bin(op, a, b) ==
    IF IsRaise(a) THEN a
    ELSE IF IsRaise(b) THEN b
    ELSE IF ~(BOk(NRows(a), NRows(b)) /\ BOk(NCols(a), NCols(b)))
    THEN Raise("ValueError")
    ELSE [shape |-> BShape(Max(NDim(a), NDim(b)),
                           BDim(NRows(a), NRows(b)), BDim(NCols(a), NCols(b))),
          v |-> BinRC(op, View(a), View(b),
                      BDim(NRows(a), NRows(b)), BDim(NCols(a), NCols(b)))]

Add(a, b) == Bin("+", a, b)
Sub(a, b) == Bin("-", a, b)
Mul(a, b) == Bin("*", a, b)
Div(a, b) == Bin("/", a, b)
\* a ** b for an array b of small naturals (np.arange).
Pow(a, b) == Bin("**", a, b)
\* a ** n for a Python int n.
PowI(a, n) ==
    IF IsRaise(a) THEN a
    ELSE [shape |-> a.shape,
          v |-> SubSeq([k \in 1..Len(a.v) |-> FPow(a.v[k], n)], 1, Len(a.v))]
\* np.exp(a)
Exp(a) ==
    IF IsRaise(a) THEN a
    ELSE [shape |-> a.shape,
          v |-> SubSeq([k \in 1..Len(a.v) |-> FExp(a.v[k])], 1, Len(a.v))]
\* -a
Neg(a) ==
    IF IsRaise(a) THEN a
    ELSE [shape |-> a.shape,
          v |-> SubSeq([k \in 1..Len(a.v) |-> FNeg(a.v[k])], 1, Len(a.v))]

\* a.T: the axes reversed; an array of one axis is its own transpose.
T(a) ==
    IF IsRaise(a) THEN a
    ELSE IF NDim(a) < 2 THEN a
    ELSE Mat(a.shape[2], a.shape[1],
             SubSeq([k \in 1..Len(a.v) |->
                        At2(a, ((k - 1) % a.shape[1]) + 1, ((k - 1) \div a.shape[1]) + 1)],
                    1, Len(a.v)))

\* a[:, np.newaxis]: an axis of length 1 after the first one, (n,) becomes
\* (n, 1) and (n, 1) becomes (n, 1, 1); a Python float cannot be indexed.
NewAxis(a) ==
    IF IsRaise(a) THEN a
    ELSE IF NDim(a) = 0 THEN Raise("TypeError")
    ELSE [shape |-> <<a.shape[1], 1>> \o Tail(a.shape), v |-> a.v]

\* The number of entries of a[i].
Width(a) == Len(a.v) \div a.shape[1]

\* a[i], i counted from 0: the first axis is dropped.
Index0(a, i) ==
    IF IsRaise(a) THEN a
    ELSE [shape |-> Tail(a.shape),
          v |-> SubSeq(a.v, i * Width(a) + 1, (i + 1) * Width(a))]

\* a.reshape(r, c)
Reshape(a, r, c) == IF IsRaise(a) THEN a ELSE Mat(r, c, a.v)

\* The right operand of np.matmul read as two axes: an array of one axis is
\* a column.
ColView(b) ==
    [r |-> b.shape[1], c |-> IF NDim(b) = 2 THEN b.shape[2] ELSE 1, v |-> b.v]

RECURSIVE Dot(_, _, _, _, _)
\* The sum over the first k terms of row i of x times column j of y.
Dot(x, y, i, j, k) ==
    IF k = 0 THEN 0
    ELSE FAdd(Dot(x, y, i, j, k - 1),
              FMul(x.v[(i - 1) * x.c + k], y.v[(k - 1) * y.c + j]))

MatMulRC(x, y) ==
    SubSeq([n \in 1..(x.r * y.c) |->
               Dot(x, y, ((n - 1) \div y.c) + 1, ((n - 1) % y.c) + 1, x.c)],
           1, x.r * y.c)

MatMulShape(a, b) ==
    IF NDim(a) = 1 /\ NDim(b) = 1 THEN <<>>
    ELSE IF NDim(a) = 1 THEN <<b.shape[2]>>
    ELSE IF NDim(b) = 1 THEN <<a.shape[1]>>
    ELSE <<a.shape[1], b.shape[2]>>

\* np.matmul; an operand of one axis is a row on the left and a column on
\* the right, and that axis is dropped from the result.
MatMul(a, b) ==
    IF IsRaise(a) THEN a
    ELSE IF IsRaise(b) THEN b
    ELSE IF NCols(a) # b.shape[1] THEN Raise("ValueError")
    ELSE [shape |-> MatMulShape(a, b), v |-> MatMulRC(View(a), ColView(b))]

\* a[lo:hi, :] of a two-axes array (rows lo+1..hi, counted from 0 as
\* Python does).
RowSlice(a, lo, hi) ==
    IF IsRaise(a) THEN a
    ELSE Mat(hi - lo, a.shape[2], SubSeq(a.v, lo * a.shape[2] + 1, hi * a.shape[2]))

\* The length of the slice lo:hi.
SliceLen(lo, hi) == IF hi > lo THEN hi - lo ELSE 0

\* a[:, lo:hi] of a two-axes array.
ColSlice(a, lo, hi) ==
    IF IsRaise(a) THEN a
    ELSE Mat(a.shape[1], SliceLen(lo, hi),
             SubSeq([k \in 1..(a.shape[1] * SliceLen(lo, hi)) |->
                        At2(a, ((k - 1) \div SliceLen(lo, hi)) + 1,
                            lo + ((k - 1) % SliceLen(lo, hi)) + 1)],
                    1, a.shape[1] * SliceLen(lo, hi)))

\* a[:, j] of a two-axes array, j counted from 0: an array of one axis.
Col(a, j) ==
    IF IsRaise(a) THEN a
    ELSE Vec(SubSeq([i \in 1..a.shape[1] |-> At2(a, i, j + 1)], 1, a.shape[1]))

RECURSIVE SumRange(_, _, _)
\* s[lo] + ... + s[hi], summed by halves as np.sum does.
SumRange(s, lo, hi) ==
    IF lo > hi THEN 0
    ELSE IF lo = hi THEN s[lo]
    ELSE FAdd(SumRange(s, lo, (lo + hi) \div 2),
              SumRange(s, ((lo + hi) \div 2) + 1, hi))

\* np.sum(a) with no axis given: the sum of all the entries, a scalar.
SumNoAxis(a) ==
    IF IsRaise(a) THEN a ELSE Scalar(SumRange(a.v, 1, Len(a.v)))

\* np.sum(a, axis=1) of a two-axes array.
SumAxis1(a) ==
    IF IsRaise(a) THEN a
    ELSE Vec(SubSeq([i \in 1..a.shape[1] |->
                        SumRange(a.v, (i - 1) * a.shape[2] + 1, i * a.shape[2])],
                    1, a.shape[1]))

\* The array left as it is, NaN entries included.
NotMasked(a) == a

\* np.where(np.isnan(a), 1, a)
WhereNaN1(a) ==
    IF IsRaise(a) THEN a
    ELSE [shape |-> a.shape,
          v |-> SubSeq([k \in 1..Len(a.v) |-> IF IsNaN(a.v[k]) THEN 1 ELSE a.v[k]],
                       1, Len(a.v))]

\* np.linspace(0, stop, num, endpoint=True)
Linspace0(stop, num) ==
    Vec(SubSeq([k \in 1..num |-> FDiv(FMul(F(k - 1), stop), F(num - 1))], 1, num))

\* ------------------------------------------------------------------------
\* saftvrmie/constants/constants.py
\* ------------------------------------------------------------------------

\* BOLTZMANN = 1.3806452E-23
BOLTZMANN == Dec(13806452, 30)

\* np.pi = 3.141592653589793
PI == FAdd(Dec(314159265, 8), Dec(3589793, 15))

\* ------------------------------------------------------------------------
\* The inputs of the model
\* ------------------------------------------------------------------------

\* The longest beta or density array.
MaxLen == 2

\* (attractive_exponent, repulsive_exponent) pairs: the Lennard-Jones pair,
\* pairs with an exponent, a sum or a double equal to 3 or 4, and an equal
\* pair.  In each, the attractive exponent is a multiple of the difference.
ExponentPairs == {<<6, 12>>, <<8, 12>>, <<4, 8>>, <<3, 6>>, <<2, 4>>, <<1, 2>>, <<6, 6>>}

\* Segment diameters (3.7) and potential depths (150).
Diameters == {Dec(37, 1)}
Depths == {F(150)}

\* The diameters and densities of a CarnahanStarling object built on its
\* own, as exact decimals: 3.7 and 1; 0, 0.005 and 0.01.
DecimalDiameters == {<<37, 10>>, <<10, 10>>}
DecimalDensities == {<<0, 1000>>, <<5, 1000>>, <<10, 1000>>}

\* The float of an exact rational.
FloatOf(q) == FDiv(F(q[1]), F(q[2]))

HardSphereDiameters == {FloatOf(q) : q \in DecimalDiameters}

\* Interaction exponents of a Sutherland object built on its own.
SutherlandExponents == {3, 6, 12}

\* beta = 1 / (BOLTZMANN * T) for T = 300 and T = 400, and NaN.
BetaOf(temperature) == FDiv(1, FMul(BOLTZMANN, F(temperature)))
BetaValues == {BetaOf(300), BetaOf(400), NaN}

\* Densities 0, 0.005 and 0.01 segments per cubic Angstrom, and NaN.
DensityValues == {0, Dec(5, 3), Dec(1, 2), NaN}

RECURSIVE SeqsUpTo(_, _)
SeqsUpTo(S, n) ==
    IF n = 0 THEN {<<>>}
    ELSE SeqsUpTo(S, n - 1)
         \cup {Append(s, x) : s \in {t \in SeqsUpTo(S, n - 1) : Len(t) = n - 1}, x \in S}

\* What a caller passes: a Python float or an array of one axis, possibly
\* empty.
InputsOver(S) == {Scalar(x) : x \in S} \cup {Vec(s) : s \in SeqsUpTo(S, MaxLen)}
BetaInputs == InputsOver(BetaValues)
DensityInputs == InputsOver(DensityValues)

\* ------------------------------------------------------------------------
\* saftvrmie/potentials/mie.py
\* ------------------------------------------------------------------------

\* x ** (n / d) for Python ints n and d > 0: the integer power when d
\* divides n, which is the case for every exponent pair of the model;
\* otherwise a d-th root of x ** n in the field.
PowQ(x, n, d) ==
    IF n % d = 0 THEN FPow(x, n \div d)
    ELSE CHOOSE y \in 0..(P - 1) : PowNat(y, d) = FPow(x, n)

\* The prefactor C as numpy floats would give it: a zero divisor gives
\* infinity with a warning, and raises nothing.
MieC_numpy(attractive_power, repulsive_power) ==
    IF repulsive_power - attractive_power = 0 \/ attractive_power = 0 THEN Scalar(Inf)
    ELSE Scalar(FMul(
            FDiv(F(repulsive_power), F(repulsive_power - attractive_power)),
            PowQ(FDiv(F(repulsive_power), F(attractive_power)),
                 attractive_power, repulsive_power - attractive_power)))

\* The prefactor C with the ratio of the exponents inverted in the power:
\* (attractive_power / repulsive_power) ** (...).
MieC_inverted(attractive_power, repulsive_power) ==
    IF repulsive_power - attractive_power = 0 THEN Raise("ZeroDivisionError")
    ELSE IF attractive_power = 0 THEN Raise("ZeroDivisionError")
    ELSE Scalar(FMul(
            FDiv(F(repulsive_power), F(repulsive_power - attractive_power)),
            PowQ(FDiv(F(attractive_power), F(repulsive_power)),
                 attractive_power, repulsive_power - attractive_power)))

\* The prefactor C of Mie.__init__, or the ZeroDivisionError of its Python
\* divisions.
MieC(attractive_power, repulsive_power) ==
    IF repulsive_power - attractive_power = 0 THEN Raise("ZeroDivisionError")
    ELSE IF attractive_power = 0 THEN Raise("ZeroDivisionError")
    ELSE Scalar(FMul(
            FDiv(F(repulsive_power), F(repulsive_power - attractive_power)),
            PowQ(FDiv(F(repulsive_power), F(attractive_power)),
                 attractive_power, repulsive_power - attractive_power)))

\* The object with its C, or the exception met computing it.
MieWith(attractive_exponent, repulsive_exponent, segment_diameter, potential_depth, c) ==
    IF IsRaise(c) THEN c
    ELSE [repulsive_power |-> repulsive_exponent,
          attractive_power |-> attractive_exponent,
          segment_diameter |-> segment_diameter,
          potential_depth |-> potential_depth,
          C |-> c.v[1]]

\* Mie(attractive_exponent, repulsive_exponent, segment_diameter,
\* potential_depth): the object, or the exception __init__ raises.
Mie(attractive_exponent, repulsive_exponent, segment_diameter, potential_depth) ==
    MieWith(attractive_exponent, repulsive_exponent, segment_diameter, potential_depth,
            MieC(attractive_exponent, repulsive_exponent))

\* The BOLTZMANN local to Mie.potential, 1.380649e-23.
MIE_BOLTZMANN == Dec(1380649, 29)

\* Mie.potential(distance)
Mie_potential(self, distance) ==
    Mul(Scalar(FMul(FMul(self.C, self.potential_depth), MIE_BOLTZMANN)),
        Sub(PowI(Div(Scalar(self.segment_diameter), distance), self.repulsive_power),
            PowI(Div(Scalar(self.segment_diameter), distance), self.attractive_power)))

\* The integrand of Mie.__aux_function before np.where:
\* 1 - np.exp(-1 * np.matmul(beta, self.potential(distance).T))
Mie_integrand(self, beta, distance) ==
    Sub(Scalar(1),
        Exp(Mul(Scalar(F(-1)),
                MatMul(NewAxis(AsArray(beta)), T(Mie_potential(self, distance))))))

\* Mie.__aux_function(beta, distance)
Mie_aux_function(self, beta, distance) ==
    WhereNaN1(Sub(Scalar(1),
                  Exp(Mul(Scalar(F(-1)),
                          MatMul(NewAxis(AsArray(beta)),
                                 T(Mie_potential(self, distance)))))))

\* The number of points of the quadrature grid of Mie.effective_diameter.
NumPoints == 100

\* The quadrature grid of Mie.effective_diameter: linspace, a new axis,
\* and the offset 1E-10.
Mie_distance(self) ==
    Add(NewAxis(Linspace0(self.segment_diameter, NumPoints)), Scalar(Dec(1, 10)))

\* The trapezoid sum of Mie.effective_diameter over the rows of y:
\* (h / 2) * (y[:, 0] + 2 * np.sum(y[:, 1:-1], axis=1) + y[:, -1])
Trapezoid(h, y) ==
    Mul(Div(h, Scalar(2)),
        Add(Add(Col(y, 0),
                Mul(Scalar(2), SumAxis1(ColSlice(y, 1, y.shape[2] - 1)))),
            Col(y, y.shape[2] - 1)))

\* The body of Mie.effective_diameter(beta)
Mie_effective_diameter_body(self, beta) ==
    Trapezoid(Sub(Index0(Mie_distance(self), 1), Index0(Mie_distance(self), 0)),
              Mie_aux_function(self, beta, Mie_distance(self)))

\* The Mie objects and beta arguments of the model, and the effective
\* diameters of each pair, tabulated once: the quadrature is a function of
\* the object and the argument alone.
MieObjects ==
    {Mie(e[1], e[2], sigma, epsilon) :
        e \in {x \in ExponentPairs : x[1] # x[2]}, sigma \in Diameters, epsilon \in Depths}
EffectiveDiameterTable ==
    [x \in MieObjects \X BetaInputs |-> Mie_effective_diameter_body(x[1], x[2])] @@ <<>>

\* The tabulated value at key, the value computed otherwise.
Tabulated(table, key, value) == IF key \in DOMAIN table THEN table[key] ELSE value

\* Mie.effective_diameter(beta)
Mie_effective_diameter(self, beta) ==
    Tabulated(EffectiveDiameterTable, <<self, beta>>,
              Mie_effective_diameter_body(self, beta))

\* ------------------------------------------------------------------------
\* saftvrmie/potentials/sutherland.py
\* ------------------------------------------------------------------------

\* Sutherland(interaction_exponent, segment_diameter, potential_depth)
Sutherland(interaction_exponent, segment_diameter, potential_depth) ==
    [interaction_power |-> interaction_exponent,
     segment_diameter |-> segment_diameter,
     potential_depth |-> potential_depth]

\* The powers of eta counted from 0: np.arange(4) in place of
\* np.arange(1, 5).
Sutherland_eta_powers_from0(eta) ==
    T(Pow(NewAxis(AsArray(eta)), Vec(<<0, 1, 2, 3>>)))

\* Sutherland.__eta_powers(eta)
Sutherland_eta_powers(eta) ==
    T(Pow(NewAxis(AsArray(eta)), Vec(<<1, 2, 3, 4>>)))

\* The parameters matrix of Sutherland.effective_packing_fraction.
SutherlandParameters ==
    Mat(4, 4, <<Dec(81096, 5), Dec(17888, 4), Dec(-37578, 3), Dec(92284, 3),
                Dec(10505, 4), Dec(-19341, 3), Dec(15126, 2), Dec(-46550, 2),
                Dec(-19057, 4), Dec(22845, 3), Dec(-22814, 2), Dec(97392, 2),
                Dec(10885, 4), Dec(-61962, 4), Dec(10698, 2), Dec(-67764, 2)>>)

\* The lambda_array of Sutherland.effective_packing_fraction for the
\* interaction power l # 0.
LambdaArray(l) ==
    Vec(<<1, FDiv(1, F(l)), FDiv(1, F(l * l)), FDiv(1, F(l * l * l))>>)

\* Sutherland.effective_packing_fraction(packing_fraction)
Sutherland_effective_packing_fraction(self, packing_fraction) ==
    IF self.interaction_power = 0 THEN Raise("ZeroDivisionError")
    ELSE T(MatMul(T(MatMul(SutherlandParameters, LambdaArray(self.interaction_power))),
                  Sutherland_eta_powers(packing_fraction)))

\* The first-order term with 1 / (interaction_power - 3) taken as numpy
\* floats: a zero divisor gives infinity, and raises nothing.
Sutherland_first_order_numpy(self, packing_fraction) ==
    Mul(Mul(Mul(Scalar(FMul(FMul(F(-12), self.potential_depth), BOLTZMANN)),
                packing_fraction),
            Scalar(FDiv(1, F(self.interaction_power - 3)))),
        Div(Sub(Scalar(1),
                Div(Sutherland_effective_packing_fraction(self, packing_fraction),
                    Scalar(2))),
            PowI(Sub(Scalar(1),
                     Sutherland_effective_packing_fraction(self, packing_fraction)),
                 3)))

\* Sutherland.first_order_perturbation_term(packing_fraction)
Sutherland_first_order_perturbation_term(self, packing_fraction) ==
    IF self.interaction_power - 3 = 0 THEN Raise("ZeroDivisionError")
    ELSE Mul(Mul(Mul(Scalar(FMul(FMul(F(-12), self.potential_depth), BOLTZMANN)),
                     packing_fraction),
                 Scalar(FDiv(1, F(self.interaction_power - 3)))),
             Div(Sub(Scalar(1),
                     Div(Sutherland_effective_packing_fraction(self, packing_fraction),
                         Scalar(2))),
                 PowI(Sub(Scalar(1),
                          Sutherland_effective_packing_fraction(self, packing_fraction)),
                      3)))

\* ------------------------------------------------------------------------
\* saftvrmie/models/carnahan_starling.py
\* ------------------------------------------------------------------------

\* CarnahanStarling(diameter)
CarnahanStarling(diameter) == [diameter |-> diameter]

\* The packing fraction with the diameter squared in place of cubed.
CS_packing_fraction_squared(self, density) ==
    Div(Mul(Mul(density, Scalar(PI)), Scalar(FPow(self.diameter, 2))), Scalar(6))

\* CarnahanStarling.packing_fraction(density)
CS_packing_fraction(self, density) ==
    Div(Mul(Mul(density, Scalar(PI)), Scalar(FPow(self.diameter, 3))), Scalar(6))

\* The same expression on exact rationals <<numerator, denominator>> with a
\* positive denominator, for the order of the results, which the residues
\* do not keep; np.pi is taken as 355 / 113.
PI_RATIONAL == <<355, 113>>
ExactPackingFraction(diameter, density) ==
    <<density[1] * PI_RATIONAL[1] * diameter[1] * diameter[1] * diameter[1],
      density[2] * PI_RATIONAL[2] * diameter[2] * diameter[2] * diameter[2] * 6>>

\* a_hs of CarnahanStarling.helmholtz_energy for the packing fraction eta
CS_a_hs(eta) ==
    Div(Sub(Mul(Scalar(4), eta), Mul(Scalar(3), PowI(eta, 2))),
        PowI(Sub(Scalar(1), eta), 2))

\* CarnahanStarling.helmholtz_energy(density)
CS_helmholtz_energy(self, density) == CS_a_hs(CS_packing_fraction(self, density))

\* k_hs with (1 - eta) * 4 written for (1 - eta) ** 4.
CS_k_hs_times4(eta) ==
    Div(Mul(Sub(Scalar(1), eta), Scalar(4)),
        Add(Sub(Add(Add(Scalar(1), Mul(Scalar(4), eta)),
                    Mul(Scalar(4), PowI(eta, 2))),
                Mul(Scalar(4), PowI(eta, 3))),
            PowI(eta, 4)))

\* k_hs of CarnahanStarling.compressibility_factor for the packing fraction
\* eta
CS_k_hs(eta) ==
    Div(PowI(Sub(Scalar(1), eta), 4),
        Add(Sub(Add(Add(Scalar(1), Mul(Scalar(4), eta)),
                    Mul(Scalar(4), PowI(eta, 2))),
                Mul(Scalar(4), PowI(eta, 3))),
            PowI(eta, 4)))

\* CarnahanStarling.compressibility_factor(density)
CS_compressibility_factor(self, density) == CS_k_hs(CS_packing_fraction(self, density))

\* The prefactor with the attractive exponent in the first ratio:
\* (lambda_a / (lambda_r - lambda_a)) * ...
CS_alpha_C_attractive(lambda_a, lambda_r) ==
    IF lambda_r - lambda_a = 0 THEN Raise("ZeroDivisionError")
    ELSE IF lambda_a = 0 THEN Raise("ZeroDivisionError")
    ELSE Scalar(FMul(FDiv(F(lambda_a), F(lambda_r - lambda_a)),
                     PowQ(FDiv(F(lambda_r), F(lambda_a)),
                          lambda_a, lambda_r - lambda_a)))

\* C of CarnahanStarling.alpha, recomputed there from the two exponents:
\* (lambda_r / (lambda_r - lambda_a))
\*     * ((lambda_r / lambda_a) ** (lambda_a / (lambda_r - lambda_a))),
\* or the ZeroDivisionError of its Python divisions.
CS_alpha_C(lambda_a, lambda_r) ==
    IF lambda_r - lambda_a = 0 THEN Raise("ZeroDivisionError")
    ELSE IF lambda_a = 0 THEN Raise("ZeroDivisionError")
    ELSE Scalar(FMul(FDiv(F(lambda_r), F(lambda_r - lambda_a)),
                     PowQ(FDiv(F(lambda_r), F(lambda_a)),
                          lambda_a, lambda_r - lambda_a)))

\* alpha of CarnahanStarling.alpha from its C, or the ZeroDivisionError of
\* its Python divisions.
CS_alpha_of(C, lambda_a, lambda_r) ==
    IF IsRaise(C) THEN C
    ELSE IF lambda_a - 3 = 0 \/ lambda_r - 3 = 0 THEN Raise("ZeroDivisionError")
    ELSE Scalar(FMul(C.v[1], FSub(FDiv(1, F(lambda_a - 3)), FDiv(1, F(lambda_r - 3)))))

\* CarnahanStarling.alpha(lambda_a, lambda_r): a Python float, or the
\* exception.
CS_alpha(lambda_a, lambda_r) ==
    CS_alpha_of(CS_alpha_C(lambda_a, lambda_r), lambda_a, lambda_r)

\* CarnahanStarling.__alpha_powers(alpha)
CS_alpha_powers(alpha) ==
    T(Pow(NewAxis(Vec(<<alpha>>)), Vec(<<0, 1, 2, 3>>)))

\* The phi table of CarnahanStarling.__f.
Phi ==
    Mat(7, 6, <<
        Dec(75365557, 7), Dec(-35944, 2), Dec(15509, 1), Dec(-119932, 5), Dec(-191128, 2), Dec(92369, 1),
        Dec(-3760463, 5), Dec(18256, 1), Dec(-50701, 1), Dec(9063632, 6), Dec(21390175, 3), F(-129430),
        Dec(71745953, 6), F(-3168), Dec(65346, 1), Dec(-1794482, 5), Dec(-513207, 1), F(357230),
        Dec(-4683552, 5), Dec(18842, 1), Dec(-32887, 1), Dec(1134027, 5), Dec(3706454, 2), F(-315530),
        Dec(-2467982, 6), Dec(-82376, 5), Dec(-27171, 4), Dec(2052142, 5), Dec(1103742, 3), Dec(13902, 1),
        Dec(-50272, 5), Dec(-31935, 4), Dec(20883, 4), Dec(-566377, 4), Dec(-326461, 2), Dec(-45182, 1),
        Dec(80956883, 7), Dec(37090, 4), 0, Dec(4053683, 5), Dec(2556181, 3), Dec(42416, 1)>>)

\* f with the denominator taken on alpha_powers[:3], the powers 0 to 2, in
\* place of alpha_powers[1:].
CS_f_of_shifted(alpha_powers) ==
    NewAxis(Div(MatMul(T(RowSlice(Phi, 0, 4)), alpha_powers),
                Add(Scalar(1),
                    MatMul(T(RowSlice(Phi, 4, 7)), RowSlice(alpha_powers, 0, 3)))))

\* f of CarnahanStarling.__f from the powers of alpha: the array of shape
\* (6, 1, 1).
CS_f_of(alpha_powers) ==
    NewAxis(Div(MatMul(T(RowSlice(Phi, 0, 4)), alpha_powers),
                Add(Scalar(1),
                    MatMul(T(RowSlice(Phi, 4, 7)), RowSlice(alpha_powers, 1, 4)))))

\* CarnahanStarling.__f(alpha)
CS_f(alpha) == CS_f_of(CS_alpha_powers(alpha))

\* The sum of CarnahanStarling.correction_factor from f and the packing
\* fraction with its new axis.
CS_correction_sum(f, packing_fraction, x0) ==
    Add(Add(Mul(Mul(Index0(f, 0), packing_fraction), PowI(x0, 3)),
            Mul(Index0(f, 1), PowI(Mul(packing_fraction, PowI(x0, 3)), 5))),
        Mul(Index0(f, 2), PowI(Mul(packing_fraction, PowI(x0, 3)), 8)))

\* The correction factor with the packing fraction left without its new
\* axis.
CS_correction_factor_flat(alpha, packing_fraction, x0) ==
    CS_correction_sum(CS_f(alpha), packing_fraction, x0)

\* CarnahanStarling.correction_factor(alpha, packing_fraction, x0)
CS_correction_factor(alpha, packing_fraction, x0) ==
    CS_correction_sum(CS_f(alpha),
                      IF NDim(packing_fraction) > 0 THEN NewAxis(packing_fraction)
                      ELSE packing_fraction,
                      x0)

\* ------------------------------------------------------------------------
\* saftvrmie/models/saftvrmie.py
\* ------------------------------------------------------------------------

\* The object with its Mie object, or the exception met building it.
SAFTVRMieWith(attractive_exponent, repulsive_exponent, segment_diameter, potential_depth, mie) ==
    IF IsRaise(mie) THEN mie
    ELSE [attractive_exponent |-> attractive_exponent,
          repulsive_exponent |-> repulsive_exponent,
          segment_diameter |-> segment_diameter,
          potential_depth |-> potential_depth,
          mie |-> mie,
          C |-> mie.C]

\* SAFTVRMie(attractive_exponent, repulsive_exponent, segment_diameter,
\* potential_depth): the object, or the exception __init__ raises.
SAFTVRMie(attractive_exponent, repulsive_exponent, segment_diameter, potential_depth) ==
    SAFTVRMieWith(attractive_exponent, repulsive_exponent, segment_diameter, potential_depth,
                  Mie(attractive_exponent, repulsive_exponent, segment_diameter,
                      potential_depth))

\* SAFTVRMie.x0(diameter)
SAFT_x0(self, diameter) == Div(Scalar(self.segment_diameter), diameter)

\* SAFTVRMie.__I(interaction_exponent, x0)
SAFT_I(interaction_exponent, x0) ==
    Neg(Div(Sub(PowI(x0, 3 - interaction_exponent), Scalar(1)),
            Scalar(F(interaction_exponent - 3))))

\* SAFTVRMie.__J(interaction_exponent, x0)
SAFT_J(interaction_exponent, x0) ==
    Neg(Div(Sub(Sub(Mul(PowI(x0, 4 - interaction_exponent),
                        Scalar(F(interaction_exponent - 3))),
                    Mul(PowI(x0, 3 - interaction_exponent),
                        Scalar(F(interaction_exponent - 4)))),
                Scalar(1)),
            Scalar(F((interaction_exponent - 3) * (interaction_exponent - 4)))))

\* B before its transposition: rows by beta, columns by density.
SAFT_B_untransposed(self, interaction_exponent, packing_fraction, x0) ==
    Mul(Mul(Mul(Mul(Scalar(12), packing_fraction), Scalar(self.potential_depth)),
            Scalar(BOLTZMANN)),
        Sub(Mul(Reshape(SAFT_I(interaction_exponent, x0), x0.shape[1], 1),
                Div(Sub(Scalar(1), Div(packing_fraction, Scalar(2))),
                    PowI(Sub(Scalar(1), packing_fraction), 3))),
            Mul(Reshape(SAFT_J(interaction_exponent, x0), x0.shape[1], 1),
                Div(Mul(Mul(Scalar(9), packing_fraction),
                        Add(Scalar(1), packing_fraction)),
                    Mul(Scalar(2), PowI(Sub(Scalar(1), packing_fraction), 3))))))

\* SAFTVRMie.__B(interaction_exponent, packing_fraction, x0)
SAFT_B(self, interaction_exponent, packing_fraction, x0) ==
    T(Mul(Mul(Mul(Mul(Scalar(12), packing_fraction), Scalar(self.potential_depth)),
              Scalar(BOLTZMANN)),
          Sub(Mul(Reshape(SAFT_I(interaction_exponent, x0), x0.shape[1], 1),
                  Div(Sub(Scalar(1), Div(packing_fraction, Scalar(2))),
                      PowI(Sub(Scalar(1), packing_fraction), 3))),
              Mul(Reshape(SAFT_J(interaction_exponent, x0), x0.shape[1], 1),
                  Div(Mul(Mul(Scalar(9), packing_fraction),
                          Add(Scalar(1), packing_fraction)),
                      Mul(Scalar(2), PowI(Sub(Scalar(1), packing_fraction), 3)))))))

\* a1 with the two powers of x0 exchanged between the attractive and the
\* repulsive term.
SAFT_a1_swapped(self, x0, a1S_a, a1S_r, B_a, B_r) ==
    IF IsRaise(a1S_a) THEN a1S_a
    ELSE IF IsRaise(a1S_r) THEN a1S_r
    ELSE Mul(Scalar(self.C),
             Sub(Mul(PowI(NewAxis(x0), self.repulsive_exponent), T(Add(a1S_a, B_a))),
                 Mul(PowI(NewAxis(x0), self.attractive_exponent), T(Add(a1S_r, B_r)))))

\* a1 of SAFTVRMie.first_order_perturbation_term from x0, the Sutherland
\* terms and the B terms; an exception of a Sutherland term is the
\* method's.
SAFT_a1(self, x0, a1S_a, a1S_r, B_a, B_r) ==
    IF IsRaise(a1S_a) THEN a1S_a
    ELSE IF IsRaise(a1S_r) THEN a1S_r
    ELSE Mul(Scalar(self.C),
             Sub(Mul(PowI(NewAxis(x0), self.attractive_exponent), T(Add(a1S_a, B_a))),
                 Mul(PowI(NewAxis(x0), self.repulsive_exponent), T(Add(a1S_r, B_r)))))

\* The Sutherland and B terms of SAFTVRMie.first_order_perturbation_term
\* from the packing fraction and x0, and a1 from them.
SAFT_a1_terms(self, packing_fraction, x0) ==
    SAFT_a1(self, x0,
            NewAxis(Sutherland_first_order_perturbation_term(
                        Sutherland(self.attractive_exponent, self.segment_diameter,
                                   self.potential_depth),
                        packing_fraction)),
            NewAxis(Sutherland_first_order_perturbation_term(
                        Sutherland(self.repulsive_exponent, self.segment_diameter,
                                   self.potential_depth),
                        packing_fraction)),
            SAFT_B(self, self.attractive_exponent, packing_fraction, x0),
            SAFT_B(self, self.repulsive_exponent, packing_fraction, x0))

\* SAFTVRMie.first_order_perturbation_term(beta, density)
SAFT_first_order_perturbation_term(self, beta, density) ==
    SAFT_a1_terms(self,
                  CS_packing_fraction(CarnahanStarling(self.segment_diameter),
                                      AsArray(density)),
                  SAFT_x0(self, Mie_effective_diameter(self.mie, AsArray(beta))))

\* a2 with the cross term taken once, without its factor 2.
SAFT_a2_single(self, x0, alpha, compressibility_factor, correction_factor, a1S_2a, a1S_2r, a1S_ar, B_2a, B_2r, B_ar) ==
    IF IsRaise(alpha) THEN alpha
    ELSE IF IsRaise(a1S_2a) THEN a1S_2a
    ELSE IF IsRaise(a1S_2r) THEN a1S_2r
    ELSE IF IsRaise(a1S_ar) THEN a1S_ar
    ELSE T(Mul(
             Mul(Mul(Mul(Mul(Scalar(Dec(5, 1)), compressibility_factor),
                         Add(Scalar(1), correction_factor)),
                     Scalar(FMul(self.potential_depth, BOLTZMANN))),
                 Scalar(FPow(self.C, 2))),
             Add(Sub(Mul(PowI(x0, 2 * self.attractive_exponent), Add(a1S_2a, B_2a)),
                     Mul(PowI(x0, self.attractive_exponent + self.repulsive_exponent),
                         Add(a1S_ar, B_ar))),
                 Mul(PowI(x0, 2 * self.repulsive_exponent), Add(a1S_2r, B_2r)))))

\* a2 of SAFTVRMie.second_order_perturbation_term from its factors; an
\* exception of alpha or of a Sutherland term is the method's.
SAFT_a2(self, x0, alpha, compressibility_factor, correction_factor, a1S_2a, a1S_2r, a1S_ar, B_2a, B_2r, B_ar) ==
    IF IsRaise(alpha) THEN alpha
    ELSE IF IsRaise(a1S_2a) THEN a1S_2a
    ELSE IF IsRaise(a1S_2r) THEN a1S_2r
    ELSE IF IsRaise(a1S_ar) THEN a1S_ar
    ELSE T(Mul(
             Mul(Mul(Mul(Mul(Scalar(Dec(5, 1)), compressibility_factor),
                         Add(Scalar(1), correction_factor)),
                     Scalar(FMul(self.potential_depth, BOLTZMANN))),
                 Scalar(FPow(self.C, 2))),
             Add(Sub(Mul(PowI(x0, 2 * self.attractive_exponent), Add(a1S_2a, B_2a)),
                     Mul(Scalar(2),
                         Mul(PowI(x0, self.attractive_exponent + self.repulsive_exponent),
                             Add(a1S_ar, B_ar)))),
                 Mul(PowI(x0, 2 * self.repulsive_exponent), Add(a1S_2r, B_2r)))))

\* The factors of SAFTVRMie.second_order_perturbation_term from the
\* density, the packing fraction, x0 and alpha, and a2 from them.
SAFT_a2_terms(self, density, packing_fraction, x0, alpha) ==
    SAFT_a2(self, x0, alpha,
            NewAxis(CS_compressibility_factor(CarnahanStarling(self.segment_diameter),
                                              density)),
            CS_correction_factor(alpha.v[1], packing_fraction, x0),
            NewAxis(Sutherland_first_order_perturbation_term(
                        Sutherland(2 * self.attractive_exponent, self.segment_diameter,
                                   self.potential_depth),
                        packing_fraction)),
            NewAxis(Sutherland_first_order_perturbation_term(
                        Sutherland(2 * self.repulsive_exponent, self.segment_diameter,
                                   self.potential_depth),
                        packing_fraction)),
            NewAxis(Sutherland_first_order_perturbation_term(
                        Sutherland(self.repulsive_exponent + self.attractive_exponent,
                                   self.segment_diameter, self.potential_depth),
                        packing_fraction)),
            SAFT_B(self, 2 * self.attractive_exponent, packing_fraction, x0),
            SAFT_B(self, 2 * self.repulsive_exponent, packing_fraction, x0),
            SAFT_B(self, self.attractive_exponent + self.repulsive_exponent,
                   packing_fraction, x0))

\* SAFTVRMie.second_order_perturbation_term(beta, density)
SAFT_second_order_perturbation_term(self, beta, density) ==
    SAFT_a2_terms(self, AsArray(density),
                  CS_packing_fraction(CarnahanStarling(self.segment_diameter),
                                      AsArray(density)),
                  SAFT_x0(self, Mie_effective_diameter(self.mie, AsArray(beta))),
                  CS_alpha(self.attractive_exponent, self.repulsive_exponent))

\* ------------------------------------------------------------------------
\* The state: one object in use with the number of calls made on it, the
\* caller's two arrays, the last operation and what it returned or raised
\* ------------------------------------------------------------------------

VARIABLES obj, the_beta, the_density, last

vars == <<obj, the_beta, the_density, last>>

\* The calls followed on one object.
MaxCalls == 2

NoObject == [class |-> "none", calls |-> 0]
NoCall == [op |-> "none"]

\* The object a name is bound to after `name = Class(...)`: the assignment
\* does not happen when the constructor raises.
Bound(class, made, old) ==
    IF IsRaise(made) THEN old ELSE [class |-> class, self |-> made, calls |-> 0]

\* The attributes after a method that squares self.C in place.
SelfAfterSquaring(self) ==
    IF "C" \in DOMAIN self THEN [self EXCEPT !.C = FMul(self.C, self.C)] ELSE self

\* The attributes of self after a method other than __init__ has run: no
\* such method of the four classes assigns to an attribute.
SelfAfter(self) == self

\* An array argument after a call that masks its NaN entries in place.
ArgAfterMasking(a) == WhereNaN1(a)

\* An array argument after the call: the methods rebind their parameters
\* (beta = np.array([beta]), beta = beta[:, np.newaxis]) and never write
\* into the caller's array.
ArgAfter(a) == a

Init ==
    /\ obj = NoObject
    /\ the_beta = Scalar(BetaOf(300))
    /\ the_density = Scalar(Dec(5, 3))
    /\ last = NoCall

\* What the caller may bind next in place of a: a Python float, an empty
\* array, or np.append(a, x).
NextInputs(a, S) ==
    {Scalar(x) : x \in S} \cup {Vec(<<>>)}
    \cup (IF Len(a.v) < MaxLen THEN {Vec(Append(a.v, x)) : x \in S} ELSE {})

\* The caller takes the last result and binds its beta array.
BindBeta(b) ==
    /\ the_beta' = b
    /\ last' = NoCall
    /\ UNCHANGED <<obj, the_density>>

\* The caller takes the last result and binds its density array.
BindDensity(d) ==
    /\ the_density' = d
    /\ last' = NoCall
    /\ UNCHANGED <<obj, the_beta>>

\* saft = SAFTVRMie(la, lr, sigma, epsilon)
NewSAFTVRMie(la, lr, sigma, epsilon) ==
    /\ obj' = Bound("SAFTVRMie", SAFTVRMie(la, lr, sigma, epsilon), obj)
    /\ last' = [op |-> "SAFTVRMie", args |-> <<la, lr, sigma, epsilon>>,
                ret |-> SAFTVRMie(la, lr, sigma, epsilon)]
    /\ UNCHANGED <<the_beta, the_density>>

\* sutherland = Sutherland(l, sigma, epsilon)
NewSutherland(l, sigma, epsilon) ==
    /\ obj' = Bound("Sutherland", Sutherland(l, sigma, epsilon), obj)
    /\ last' = [op |-> "Sutherland", args |-> <<l, sigma, epsilon>>,
                ret |-> Sutherland(l, sigma, epsilon)]
    /\ UNCHANGED <<the_beta, the_density>>

\* carnahan_starling = CarnahanStarling(sigma)
NewCarnahanStarling(sigma) ==
    /\ obj' = Bound("CarnahanStarling", CarnahanStarling(sigma), obj)
    /\ last' = [op |-> "CarnahanStarling", args |-> <<sigma>>,
                ret |-> CarnahanStarling(sigma)]
    /\ UNCHANGED <<the_beta, the_density>>

\* A method call on the object in use, made once the caller has bound its
\* arrays; the result or the exception is kept until the caller takes it,
\* with the object and the arguments the call was made with.
Called(op, ret) ==
    /\ last = NoCall
    /\ obj.calls < MaxCalls
    /\ obj' = [obj EXCEPT !.self = SelfAfter(obj.self), !.calls = obj.calls + 1]
    /\ the_beta' = ArgAfter(the_beta)
    /\ the_density' = ArgAfter(the_density)
    /\ last' = [op |-> op, self |-> obj.self, args |-> <<the_beta, the_density>>,
                ret |-> ret]

\* saft.first_order_perturbation_term(beta, density)
FirstOrder ==
    /\ obj.class = "SAFTVRMie"
    /\ Called("first_order_perturbation_term",
              SAFT_first_order_perturbation_term(obj.self, the_beta, the_density))

\* saft.second_order_perturbation_term(beta, density)
SecondOrder ==
    /\ obj.class = "SAFTVRMie"
    /\ Called("second_order_perturbation_term",
              SAFT_second_order_perturbation_term(obj.self, the_beta, the_density))

\* saft.mie.effective_diameter(beta)
EffectiveDiameter ==
    /\ obj.class = "SAFTVRMie"
    /\ Called("effective_diameter", Mie_effective_diameter(obj.self.mie, the_beta))

\* saft.mie.potential(distance), the distances being the caller's second
\* array
Potential ==
    /\ obj.class = "SAFTVRMie"
    /\ Called("potential", Mie_potential(obj.self.mie, the_density))

\* sutherland.first_order_perturbation_term(packing_fraction), the packing
\* fractions being the caller's second array
SutherlandFirstOrder ==
    /\ obj.class = "Sutherland"
    /\ Called("sutherland_first_order_perturbation_term",
              Sutherland_first_order_perturbation_term(obj.self, the_density))

\* sutherland.effective_packing_fraction(packing_fraction)
EffectivePackingFraction ==
    /\ obj.class = "Sutherland"
    /\ Called("effective_packing_fraction",
              Sutherland_effective_packing_fraction(obj.self, the_density))

\* carnahan_starling.packing_fraction(density)
PackingFraction ==
    /\ obj.class = "CarnahanStarling"
    /\ Called("packing_fraction", CS_packing_fraction(obj.self, the_density))

\* carnahan_starling.helmholtz_energy(density)
HelmholtzEnergy ==
    /\ obj.class = "CarnahanStarling"
    /\ Called("helmholtz_energy", CS_helmholtz_energy(obj.self, the_density))

\* carnahan_starling.compressibility_factor(density)
CompressibilityFactor ==
    /\ obj.class = "CarnahanStarling"
    /\ Called("compressibility_factor", CS_compressibility_factor(obj.self, the_density))

\* carnahan_starling.alpha(lambda_a, lambda_r)
Alpha(lambda_a, lambda_r) ==
    /\ obj.class = "CarnahanStarling"
    /\ last = NoCall
    /\ obj.calls < MaxCalls
    /\ obj' = [obj EXCEPT !.self = SelfAfter(obj.self), !.calls = obj.calls + 1]
    /\ the_beta' = ArgAfter(the_beta)
    /\ the_density' = ArgAfter(the_density)
    /\ last' = [op |-> "alpha", self |-> obj.self, args |-> <<the_beta, the_density>>,
                exponents |-> <<lambda_a, lambda_r>>,
                ret |-> CS_alpha(lambda_a, lambda_r)]

\* carnahan_starling.correction_factor(alpha, packing_fraction, x0) with the
\* alpha of the Lennard-Jones exponents, the packing fractions being the
\* caller's second array and the x0 its first
CorrectionFactor ==
    /\ obj.class = "CarnahanStarling"
    /\ Called("correction_factor",
              CS_correction_factor(CS_alpha(6, 12).v[1], the_density, the_beta))

Next ==
    \/ \E b \in NextInputs(the_beta, BetaValues) : BindBeta(b)
    \/ \E d \in NextInputs(the_density, DensityValues) : BindDensity(d)
    \/ \E e \in ExponentPairs, sigma \in Diameters, epsilon \in Depths :
          NewSAFTVRMie(e[1], e[2], sigma, epsilon)
    \/ \E l \in SutherlandExponents, sigma \in Diameters, epsilon \in Depths :
          NewSutherland(l, sigma, epsilon)
    \/ \E sigma \in HardSphereDiameters : NewCarnahanStarling(sigma)
    \/ FirstOrder
    \/ SecondOrder
    \/ EffectiveDiameter
    \/ Potential
    \/ SutherlandFirstOrder
    \/ EffectivePackingFraction
    \/ PackingFraction
    \/ HelmholtzEnergy
    \/ CompressibilityFactor
    \/ \E e \in ExponentPairs : Alpha(e[1], e[2])
    \/ CorrectionFactor

Spec == Init /\ [][Next]_vars

\* ------------------------------------------------------------------------
\* saftvrmie/constants/constants.py, the constants of the conversions
\* ------------------------------------------------------------------------

\* AVOGADRO = 6.023E23
AVOGADRO == FMul(F(6023), FPow(F(10), 20))

\* ANGSTRON = 1E-10
ANGSTRON == Dec(1, 10)

\* KILOGRAM = 1E3
KILOGRAM == F(1000)

\* ------------------------------------------------------------------------
\* saftvrmie/files/reader.py
\* ------------------------------------------------------------------------

\* A temperature or density entry of the YAML file as the reader keeps it:
\* np.array(list) for a list, the number itself otherwise.
Reader_value(y) == IF "list" \in DOMAIN y THEN Vec(y.list) ELSE Scalar(y.number)

\* Reader.read(yaml_path), loader being the content of the file.
Reader_read(yaml_path, loader) ==
    [yaml_path |-> yaml_path,
     segment_diameter |-> loader.segment_diameter,
     potential_depth |-> loader.potential_depth,
     repulsive_exponent |-> loader.repulsive_exponent,
     attractive_exponent |-> loader.attractive_exponent,
     ms |-> loader.ms,
     molar_mass |-> loader.molar_mass,
     temperature |-> Reader_value(loader.temperature),
     density |-> Reader_value(loader.density),
     output_filename |-> loader.output_filename]

\* ------------------------------------------------------------------------
\* saftvrmie/files/exporter.py
\* ------------------------------------------------------------------------

\* np.repeat(a, n): each entry n times in a row.
Repeat(a, n) ==
    Vec(SubSeq([k \in 1..(Len(a.v) * n) |-> a.v[((k - 1) \div n) + 1]],
               1, Len(a.v) * n))

\* np.tile(a, n): the whole array n times.
Tile(a, n) ==
    Vec(SubSeq([k \in 1..(Len(a.v) * n) |-> a.v[((k - 1) % Len(a.v)) + 1]],
               1, Len(a.v) * n))

\* a.flatten()
Flatten(a) == Vec(a.v)

\* pd.DataFrame of three columns, the third kept in the rows' field
\* value: the frame, or the ValueError of columns of different lengths.
DataFrame(temperature, density, value) ==
    IF Len(temperature.v) # Len(density.v) \/ Len(density.v) # Len(value.v)
    THEN Raise("ValueError")
    ELSE [rows |-> SubSeq([k \in 1..Len(value.v) |->
                              [temperature |-> temperature.v[k],
                               density |-> density.v[k], value |-> value.v[k]]],
                          1, Len(value.v))]

\* The frame of one perturbation term in Exporter.export.
TermFrame(reader, term) ==
    DataFrame(Repeat(reader.temperature, term.shape[2]),
              Tile(reader.density, term.shape[1]),
              Flatten(term))

\* The rows of right with the keys of the left row l, joined to l.
Joined(l, right) ==
    SubSeq([k \in 1..Len(right) |->
               [temperature |-> l.temperature, density |-> l.density,
                a1 |-> l.value, a2 |-> right[k].value]],
           1, Len(right))
Matching(l, right) ==
    SelectSeq(right, LAMBDA r : r.temperature = l.temperature /\ r.density = l.density)

\* pd.merge(left, right, on=["temperature", "density"]): the inner join,
\* in the order of the left rows, every left row with every right row of
\* the same keys.
RECURSIVE MergeFrom(_, _, _)
MergeFrom(left, right, i) ==
    IF i > Len(left) THEN <<>>
    ELSE Joined(left[i], Matching(left[i], right)) \o MergeFrom(left, right, i + 1)
Merge(left, right) ==
    IF IsRaise(left) THEN left
    ELSE IF IsRaise(right) THEN right
    ELSE [rows |-> MergeFrom(left.rows, right.rows, 1)]

\* The columns .assign adds to one row of the merged frame.
Assigned(reader, row) ==
    [temperature |-> row.temperature,
     density |-> row.density,
     a1 |-> row.a1,
     a2 |-> row.a2,
     a1_dimensionless |-> FDiv(row.a1, FMul(reader.potential_depth, BOLTZMANN)),
     a2_dimensionless |->
         FDiv(row.a2, FPow(FMul(reader.potential_depth, BOLTZMANN), 2)),
     segment_diameter |-> reader.segment_diameter,
     potential_depth |-> reader.potential_depth,
     repulsive_exponent |-> reader.repulsive_exponent,
     attractive_exponent |-> reader.attractive_exponent,
     ms |-> reader.ms,
     input_filename |-> reader.yaml_path,
     temperature_dimensionless |-> FDiv(row.temperature, reader.potential_depth),
     density_dimensionless |->
         FMul(FMul(FMul(FMul(FMul(row.density, KILOGRAM), FDiv(1, reader.molar_mass)),
                        AVOGADRO),
                   reader.ms),
              FPow(FMul(reader.segment_diameter, ANGSTRON), 3))]

\* The file written by df_results.to_csv: its name and its records.
CsvFile(reader, rows) ==
    IF IsRaise(rows) THEN rows
    ELSE [name |-> reader.output_filename \o ".csv",
          records |-> SubSeq([k \in 1..Len(rows.rows) |->
                                 Assigned(reader, rows.rows[k])],
                             1, Len(rows.rows))]

\* Exporter.export(reader, first_order_perturbation_term,
\* second_order_perturbation_term): the file it writes, or its exception.
Exporter_export(reader, first_order_perturbation_term, second_order_perturbation_term) ==
    CsvFile(reader, Merge(TermFrame(reader, first_order_perturbation_term),
                          TermFrame(reader, second_order_perturbation_term)))

\* ------------------------------------------------------------------------
\* scripts/run_simulation.py
\* ------------------------------------------------------------------------

\* beta = 1/(BOLTZMANN*reader.temperature)
Run_beta(reader) == Div(Scalar(1), Mul(Scalar(BOLTZMANN), reader.temperature))

\* The conversion with the cube of the segment diameter in angstrom, as
\* in the density_dimensionless column of the exporter.
Run_density_dimensionless(reader) ==
    Mul(Mul(Mul(Div(Mul(reader.density, Scalar(KILOGRAM)), Scalar(reader.molar_mass)),
                Scalar(AVOGADRO)),
            Scalar(reader.ms)),
        Scalar(FPow(FMul(reader.segment_diameter, ANGSTRON), 3)))

\* density = (reader.density*KILOGRAM)/(reader.molar_mass)*AVOGADRO
\*           *reader.ms*(ANGSTRON**3)
Run_density(reader) ==
    Mul(Mul(Mul(Div(Mul(reader.density, Scalar(KILOGRAM)), Scalar(reader.molar_mass)),
                Scalar(AVOGADRO)),
            Scalar(reader.ms)),
        Scalar(FPow(ANGSTRON, 3)))

\* saftvr_mie = SAFTVRMie(...) of run_simulation
Run_engine(reader) ==
    SAFTVRMie(reader.attractive_exponent, reader.repulsive_exponent,
              reader.segment_diameter, reader.potential_depth)

\* a1 and a2 of run_simulation: an exception of the constructor or of the
\* first term comes before the second term is computed.
Run_a1(saft, beta, density) ==
    IF IsRaise(saft) THEN saft
    ELSE SAFT_first_order_perturbation_term(saft, beta, density)
Run_a2(saft, a1, beta, density) ==
    IF IsRaise(a1) THEN a1
    ELSE SAFT_second_order_perturbation_term(saft, beta, density)

\* The export of run_simulation, reached when neither term raised.
Run_export(reader, a1, a2) ==
    IF IsRaise(a2) THEN a2 ELSE Exporter_export(reader, a1, a2)

\* ------------------------------------------------------------------------
\* The command-line run: one process reads one YAML file, converts, calls
\* the engine and exports
\* ------------------------------------------------------------------------

\* Temperatures in K and densities in kg/m3 of the YAML files, as numbers
\* or lists, repeated values included.
Temperatures == {F(300), F(400)}
MassDensities == {F(100), F(200)}
YamlValues(S) ==
    {[number |-> x] : x \in S} \cup {[list |-> s] : s \in SeqsUpTo(S, MaxLen)}

\* The YAML files: methane-like molecules of two segments.
Loaders ==
    {[segment_diameter |-> sigma, potential_depth |-> epsilon,
      repulsive_exponent |-> e[2], attractive_exponent |-> e[1],
      ms |-> F(2), molar_mass |-> Dec(1604, 2),
      temperature |-> t, density |-> d, output_filename |-> "out"] :
        sigma \in Diameters, epsilon \in Depths, e \in ExponentPairs,
        t \in YamlValues(Temperatures), d \in YamlValues(MassDensities)}

\* reader = Reader.read(filename), on its own.
ReadFile(loader) ==
    /\ obj = NoObject
    /\ last = NoCall
    /\ obj' = Bound("Reader", Reader_read("in.yaml", loader), obj)
    /\ last' = [op |-> "read", ret |-> Reader_read("in.yaml", loader)]
    /\ UNCHANGED <<the_beta, the_density>>

\* The matrix of shape (m, n) with the entry base + 10 i + j at [i][j].
IndexMatrix(m, n, base) ==
    Mat(m, n, SubSeq([k \in 1..(m * n) |->
                         F(base + 10 * (((k - 1) \div n) + 1) + ((k - 1) % n) + 1)],
                     1, m * n))

\* Exporter().export(reader, a1, a2) for the reader just read and two
\* matrices of the shape of its grid with pairwise different entries.
Exported(reader, a1, a2) ==
    /\ obj' = [obj EXCEPT !.calls = obj.calls + 1]
    /\ last' = [op |-> "export", reader |-> reader, a1 |-> a1, a2 |-> a2,
                ret |-> Exporter_export(reader, a1, a2)]
    /\ UNCHANGED <<the_beta, the_density>>
Export ==
    /\ obj.class = "Reader"
    /\ last.op = "read"
    /\ Exported(obj.self,
                IndexMatrix(Len(obj.self.temperature.v), Len(obj.self.density.v), 100),
                IndexMatrix(Len(obj.self.temperature.v), Len(obj.self.density.v), 200))

\* run_simulation(filename) from its converted arrays and its two terms:
\* the arrays passed to the engine are kept in the_beta and the_density.
Simulated(reader, beta, density, a1, a2) ==
    /\ obj' = Bound("Reader", reader, obj)
    /\ the_beta' = beta
    /\ the_density' = density
    /\ last' = [op |-> "run_simulation", reader |-> reader,
                engine |-> Run_engine(reader), a1 |-> a1, a2 |-> a2,
                ret |-> Run_export(reader, a1, a2)]
Converted(reader, saft, beta, density) ==
    Simulated(reader, beta, density, Run_a1(saft, beta, density),
              Run_a2(saft, Run_a1(saft, beta, density), beta, density))

\* run_simulation(filename)
RunSimulation(loader) ==
    /\ obj = NoObject
    /\ last = NoCall
    /\ Converted(Reader_read("in.yaml", loader),
                 Run_engine(Reader_read("in.yaml", loader)),
                 Run_beta(Reader_read("in.yaml", loader)),
                 Run_density(Reader_read("in.yaml", loader)))

NextRun ==
    \/ \E loader \in Loaders : ReadFile(loader)
    \/ Export
    \/ \E loader \in Loaders : RunSimulation(loader)

SpecRun == Init /\ [][NextRun]_vars

\* ------------------------------------------------------------------------
\* Properties of the calls
\* ------------------------------------------------------------------------

IsFirstOrder == last.op = "first_order_perturbation_term"
IsSecondOrder == last.op = "second_order_perturbation_term"

\* The arrays the last call was made with.
LastBeta == last.args[1]
LastDensity == last.args[2]

NonEmptyArray(a) == NDim(a) = 1 /\ Len(a.v) > 0

\* A scalar argument written by the caller as an array of length 1.
AsLength1(a) == IF NDim(a) = 0 THEN Vec(<<a.v[1]>>) ELSE a

RowOf(m, i) == SubSeq(m.v, (i - 1) * m.shape[2] + 1, i * m.shape[2])
ColOf(m, j) == SubSeq([i \in 1..m.shape[1] |-> At2(m, i, j)], 1, m.shape[1])

AllFinite(m) == \A k \in 1..Len(m.v) : IsFinite(m.v[k])
AllDistinct(m) == Cardinality({m.v[k] : k \in 1..Len(m.v)}) = Len(m.v)

\* The perturbation term of the given order, 1 or 2.
PerturbationTerm(order, self, beta, density) ==
    IF order = 1 THEN SAFT_first_order_perturbation_term(self, beta, density)
    ELSE SAFT_second_order_perturbation_term(self, beta, density)

\* ret has one row for each beta and one column for each density: row i is
\* what the method returns for beta[i] alone with all the densities, and
\* column j what it returns for all the betas with density[j] alone.
Oriented(order, ret, self, beta, density) ==
    /\ ret.shape = <<Len(beta.v), Len(density.v)>>
    /\ \A i \in 1..Len(beta.v) :
          PerturbationTerm(order, self, Vec(<<beta.v[i]>>), density)
              = Mat(1, Len(density.v), RowOf(ret, i))
    /\ \A j \in 1..Len(density.v) :
          PerturbationTerm(order, self, beta, Vec(<<density.v[j]>>))
              = Mat(Len(beta.v), 1, ColOf(ret, j))

\* C1: for non-empty arrays beta (length m) and density (length n) a
\* first-order call that returns gives an m x n matrix whose rows follow
\* beta and whose columns follow density, entry [i][j] being the value for
\* beta[i] and density[j]; the only failure of such a call is the division
\* by zero of colliding exponents.
C1_FirstOrderMatrix ==
    (IsFirstOrder /\ NonEmptyArray(LastBeta) /\ NonEmptyArray(LastDensity))
    => IF IsRaise(last.ret) THEN last.ret = Raise("ZeroDivisionError")
       ELSE Oriented(1, last.ret, last.self, LastBeta, LastDensity)

C1_Witness ==
    /\ IsFirstOrder
    /\ LastBeta.shape = <<2>>
    /\ LastDensity.shape = <<2>>
    /\ ~IsRaise(last.ret)
    /\ last.ret.shape = <<2, 2>>
    /\ AllFinite(last.ret)
    /\ AllDistinct(last.ret)

\* C2: for non-empty arrays beta (length m) and density (length n) a
\* second-order call that returns gives an m x n matrix in the same
\* orientation as the first-order term, rows by beta and columns by
\* density, also when m and n differ.
C2_SecondOrderMatrix ==
    (IsSecondOrder /\ NonEmptyArray(LastBeta) /\ NonEmptyArray(LastDensity))
    => IF IsRaise(last.ret) THEN last.ret = Raise("ZeroDivisionError")
       ELSE Oriented(2, last.ret, last.self, LastBeta, LastDensity)

C2_Witness ==
    /\ IsSecondOrder
    /\ NDim(LastBeta) = 1
    /\ NDim(LastDensity) = 1
    /\ Len(LastBeta.v) # Len(LastDensity.v)
    /\ ~IsRaise(last.ret)
    /\ last.ret.shape = <<Len(LastBeta.v), Len(LastDensity.v)>>
    /\ Len(last.ret.v) = 2
    /\ AllFinite(last.ret)
    /\ AllDistinct(last.ret)

\* C3: a scalar beta or density is treated as an array of length 1: the
\* call gives what it gives for the length-1 arrays, so two scalars give a
\* 1 x 1 matrix, a scalar beta with n densities 1 x n, and m betas with a
\* scalar density m x 1.
C3_ScalarsAsLength1 ==
    /\ (IsFirstOrder /\ (NDim(LastBeta) = 0 \/ NDim(LastDensity) = 0))
       => /\ last.ret = SAFT_first_order_perturbation_term(
                            last.self, AsLength1(LastBeta), AsLength1(LastDensity))
          /\ ~IsRaise(last.ret)
             => last.ret.shape = <<Len(LastBeta.v), Len(LastDensity.v)>>
    /\ (IsSecondOrder /\ (NDim(LastBeta) = 0 \/ NDim(LastDensity) = 0))
       => /\ last.ret = SAFT_second_order_perturbation_term(
                            last.self, AsLength1(LastBeta), AsLength1(LastDensity))
          /\ ~IsRaise(last.ret)
             => last.ret.shape = <<Len(LastBeta.v), Len(LastDensity.v)>>

C3_Witness ==
    /\ IsFirstOrder
    /\ NDim(LastBeta) = 0
    /\ NDim(LastDensity) = 0
    /\ ~IsRaise(last.ret)
    /\ last.ret.shape = <<1, 1>>
    /\ AllFinite(last.ret)

\* C4: entry [i][j] of first_order_perturbation_term(beta, density) is the
\* single entry of first_order_perturbation_term(beta[i], density[j]).
C4_VectorizationConsistency ==
    (IsFirstOrder /\ NDim(LastBeta) = 1 /\ NDim(LastDensity) = 1
       /\ ~IsRaise(last.ret))
    => \A i \in 1..Len(LastBeta.v), j \in 1..Len(LastDensity.v) :
          SAFT_first_order_perturbation_term(
              last.self, Scalar(LastBeta.v[i]), Scalar(LastDensity.v[j]))
          = Mat(1, 1, <<last.ret.v[(i - 1) * Len(LastDensity.v) + j]>>)

C4_Witness ==
    /\ IsFirstOrder
    /\ LastBeta.shape = <<2>>
    /\ LastDensity.shape = <<2>>
    /\ LastBeta.v[1] # LastBeta.v[2]
    /\ LastDensity.v[1] # LastDensity.v[2]
    /\ AllFinite(LastBeta)
    /\ AllFinite(LastDensity)
    /\ ~IsRaise(last.ret)
    /\ AllFinite(last.ret)
    /\ last.ret.v[2] # last.ret.v[3]

\* C5: SAFTVRMie with equal attractive and repulsive exponents fails while
\* it is being constructed: the constructor raises, no engine with equal
\* exponents ever exists, and no call is ever made on one.
C5_EqualExponentsFailInConstructor ==
    /\ (last.op = "SAFTVRMie" /\ last.args[1] = last.args[2])
       => last.ret = Raise("ZeroDivisionError")
    /\ obj.class = "SAFTVRMie"
       => obj.self.attractive_exponent # obj.self.repulsive_exponent
    /\ (IsFirstOrder \/ IsSecondOrder)
       => last.self.attractive_exponent # last.self.repulsive_exponent

C5_Witness ==
    /\ last.op = "SAFTVRMie"
    /\ last.args[1] = last.args[2]
    /\ IsRaise(last.ret)
    /\ obj.class # "SAFTVRMie"

\* The exponents of the I and J integrals of the first-order term and of
\* the second-order term.
FirstOrderExponents(self) == {self.attractive_exponent, self.repulsive_exponent}
SecondOrderExponents(self) ==
    {2 * self.attractive_exponent, 2 * self.repulsive_exponent,
     self.attractive_exponent + self.repulsive_exponent}

\* C6: when an exponent of the integrals I and J is 3 or 4 (the two
\* exponents in the first-order term; their doubles and their sum in the
\* second-order term) the call fails with an error at the division and
\* never returns a result.
C6_ExponentCollisionRaises ==
    /\ (IsFirstOrder /\ FirstOrderExponents(last.self) \cap {3, 4} # {})
       => IsRaise(last.ret)
    /\ (IsSecondOrder /\ SecondOrderExponents(last.self) \cap {3, 4} # {})
       => IsRaise(last.ret)

\* C7: a Sutherland object with exponent 3 is constructed without an
\* error, and its first_order_perturbation_term fails with a division by
\* zero for every packing-fraction input.
C7_SutherlandExponent3 ==
    /\ (last.op = "Sutherland" /\ last.args[1] = 3)
       => /\ ~IsRaise(last.ret)
          /\ obj = [class |-> "Sutherland", self |-> last.ret, calls |-> 0]
    /\ (last.op = "sutherland_first_order_perturbation_term"
          /\ last.self.interaction_power = 3)
       => last.ret = Raise("ZeroDivisionError")

C7_Witness ==
    /\ last.op = "sutherland_first_order_perturbation_term"
    /\ last.self.interaction_power = 3
    /\ LastDensity.shape = <<2>>
    /\ AllFinite(LastDensity)
    /\ IsRaise(last.ret)

\* An array with no entry, or with an entry that is NaN or infinite.
InvalidInput(a) == Len(a.v) = 0 \/ ~AllFinite(a)

\* C8: a first-order or second-order call whose beta or density has length
\* zero or holds a NaN or infinite value reports an error.
C8_InvalidInputRaises ==
    ((IsFirstOrder \/ IsSecondOrder)
       /\ (InvalidInput(LastBeta) \/ InvalidInput(LastDensity)))
    => IsRaise(last.ret)

\* The engine constructed anew from the four parameters of self.
Fresh(self) ==
    SAFTVRMie(self.attractive_exponent, self.repulsive_exponent,
              self.segment_diameter, self.potential_depth)

Methods ==
    {"first_order_perturbation_term", "second_order_perturbation_term",
     "effective_diameter", "potential",
     "sutherland_first_order_perturbation_term", "effective_packing_fraction",
     "packing_fraction", "helmholtz_energy", "compressibility_factor", "alpha",
     "correction_factor"}

\* C10: every public operation of SAFTVRMie, Mie, Sutherland and
\* CarnahanStarling leaves the attributes of the object as they were (the
\* exponents, the diameter, the depth, C, and the engine's one Mie object,
\* with no attribute added for the effective diameter) and leaves the
\* caller's arrays as they were.
C10_Frame ==
    [][last'.op \in Methods
       => /\ obj'.class = obj.class
          /\ obj'.self = obj.self
          /\ DOMAIN obj'.self = DOMAIN obj.self
          /\ the_beta' = the_beta
          /\ the_density' = the_density]_vars

C10_Witness ==
    /\ last.op = "effective_diameter"
    /\ ~IsRaise(last.ret)
    /\ obj.class = "SAFTVRMie"
    /\ obj.self = last.self
    /\ obj.self.mie = Mie(obj.self.attractive_exponent, obj.self.repulsive_exponent,
                          obj.self.segment_diameter, obj.self.potential_depth)
    /\ DOMAIN obj.self = {"attractive_exponent", "repulsive_exponent",
                          "segment_diameter", "potential_depth", "mie", "C"}
    /\ the_beta = LastBeta
    /\ the_beta.shape = <<2>>
    /\ the_density = LastDensity

\* C11: for the repulsive exponent 12 and the attractive exponent 6 the
\* prefactor C computed in the constructor, (12 / (12 - 6)) * (12 / 6) **
\* (6 / (12 - 6)), is exactly 4, and the engine's C is the C of its Mie
\* object.
C11_LennardJonesPrefactor ==
    (last.op = "SAFTVRMie" /\ last.args[1] = 6 /\ last.args[2] = 12)
    => /\ ~IsRaise(last.ret)
       /\ last.ret.mie.C = FMul(FDiv(F(12), F(12 - 6)), FPow(FDiv(F(12), F(6)), 1))
       /\ last.ret.mie.C = 4
       /\ last.ret.C = last.ret.mie.C
       /\ obj.self = last.ret

C11_Witness ==
    /\ last.op = "SAFTVRMie"
    /\ last.args[1] = 6
    /\ last.args[2] = 12
    /\ obj.class = "SAFTVRMie"
    /\ obj.self.C = 4
    /\ obj.self.mie.C = 4

\* C12: for every Sutherland object with an exponent other than 3, the
\* effective packing fraction at the packing fraction 0 is 0 and
\* first_order_perturbation_term at the packing fraction 0 returns 0.
C12_SutherlandZeroAtZero ==
    /\ (last.op = "effective_packing_fraction" /\ last.self.interaction_power # 3)
       => /\ ~IsRaise(last.ret)
          /\ Len(last.ret.v) = Len(LastDensity.v)
          /\ \A k \in 1..Len(LastDensity.v) : LastDensity.v[k] = 0 => last.ret.v[k] = 0
    /\ (last.op = "sutherland_first_order_perturbation_term"
          /\ last.self.interaction_power # 3)
       => /\ ~IsRaise(last.ret)
          /\ Len(last.ret.v) = Len(LastDensity.v)
          /\ \A k \in 1..Len(LastDensity.v) : LastDensity.v[k] = 0 => last.ret.v[k] = 0

C12_Witness ==
    /\ last.op = "sutherland_first_order_perturbation_term"
    /\ last.self.interaction_power = 12
    /\ LastDensity.shape = <<2>>
    /\ LastDensity.v[1] = 0
    /\ IsFinite(LastDensity.v[2])
    /\ LastDensity.v[2] # 0
    /\ ~IsRaise(last.ret)
    /\ last.ret.v[1] = 0
    /\ IsFinite(last.ret.v[2])
    /\ last.ret.v[2] # 0

\* The exact decimal a float of the model stands for.
IsDecimal(S, x) == \E q \in S : FloatOf(q) = x
DecimalOf(S, x) == CHOOSE q \in S : FloatOf(q) = x

\* a < b for exact rationals with positive denominators.
QLess(a, b) ==
    IF a[2] = b[2] THEN a[1] < b[1] ELSE a[1] * b[2] < b[1] * a[2]

\* The packing fraction of density x in exact arithmetic, for the object
\* self.
ExactEta(self, x) ==
    ExactPackingFraction(DecimalOf(DecimalDiameters, self.diameter),
                         DecimalOf(DecimalDensities, x))

\* C13: packing_fraction returns density * pi * diameter ** 3 / 6 entry by
\* entry, in the length and order of the density argument; the packing
\* fraction of density 0 is 0, and a smaller density has a smaller packing
\* fraction.
C13_PackingFraction ==
    last.op = "packing_fraction"
    => /\ ~IsRaise(last.ret)
       /\ last.ret.shape = LastDensity.shape
       /\ \A k \in 1..Len(LastDensity.v) :
             /\ last.ret.v[k]
                   = FDiv(FMul(FMul(LastDensity.v[k], PI), FPow(last.self.diameter, 3)),
                          F(6))
             /\ LastDensity.v[k] = 0 => last.ret.v[k] = 0
       /\ \A k1, k2 \in 1..Len(LastDensity.v) :
             (/\ IsDecimal(DecimalDensities, LastDensity.v[k1])
              /\ IsDecimal(DecimalDensities, LastDensity.v[k2])
              /\ QLess(DecimalOf(DecimalDensities, LastDensity.v[k1]),
                       DecimalOf(DecimalDensities, LastDensity.v[k2])))
             => /\ QLess(ExactEta(last.self, LastDensity.v[k1]),
                         ExactEta(last.self, LastDensity.v[k2]))
                /\ last.ret.v[k1] # last.ret.v[k2]

C13_Witness ==
    /\ last.op = "packing_fraction"
    /\ LastDensity = Vec(<<FloatOf(<<5, 1000>>), FloatOf(<<10, 1000>>)>>)
    /\ ~IsRaise(last.ret)
    /\ last.ret.shape = <<2>>
    /\ AllFinite(last.ret)
    /\ last.ret.v[1] # last.ret.v[2]
    /\ QLess(ExactEta(last.self, LastDensity.v[1]), ExactEta(last.self, LastDensity.v[2]))

\* eta = rho * pi * sigma ** 3 / 6 and
\* K_hs = (1 - eta)^4 / (1 + 4 eta + 4 eta^2 - 4 eta^3 + eta^4) on floats.
EtaAt(sigma, rho) == FDiv(FMul(FMul(rho, PI), FPow(sigma, 3)), F(6))
KhsAt(eta) ==
    FDiv(FPow(FSub(1, eta), 4),
         FAdd(FSub(FAdd(FAdd(1, FMul(4, eta)), FMul(4, FPow(eta, 2))),
                   FMul(4, FPow(eta, 3))),
              FPow(eta, 4)))

\* C14: compressibility_factor returns, entry by entry,
\* (1 - eta)^4 / (1 + 4 eta + 4 eta^2 - 4 eta^3 + eta^4) at the packing
\* fraction eta of the density, and exactly 1 for the density 0, whatever
\* the diameter.
C14_CompressibilityFactor ==
    last.op = "compressibility_factor"
    => /\ ~IsRaise(last.ret)
       /\ last.ret.shape = LastDensity.shape
       /\ \A k \in 1..Len(LastDensity.v) :
             /\ last.ret.v[k] = KhsAt(EtaAt(last.self.diameter, LastDensity.v[k]))
             /\ LastDensity.v[k] = 0 => last.ret.v[k] = 1

C14_Witness ==
    /\ last.op = "compressibility_factor"
    /\ last.self.diameter # 1
    /\ LastDensity.shape = <<2>>
    /\ LastDensity.v[1] = 0
    /\ LastDensity.v[2] # 0
    /\ ~IsRaise(last.ret)
    /\ last.ret.v[1] = 1
    /\ IsFinite(last.ret.v[2])
    /\ last.ret.v[2] # 1

\* The samples of the integrand before and after np.where, for each Mie
\* object and beta argument of the model, tabulated once.
IntegrandTable ==
    [x \in MieObjects \X BetaInputs |-> Mie_integrand(x[1], x[2], Mie_distance(x[1]))]
SampleTable ==
    [x \in MieObjects \X BetaInputs |-> Mie_aux_function(x[1], x[2], Mie_distance(x[1]))]

\* The samples that enter the trapezoidal sum are the integrand with each
\* NaN replaced by 1, one row of NumPoints samples for each beta.
Clamped(raw, samples, n) ==
    /\ ~IsRaise(samples)
    /\ samples.shape = <<n, NumPoints>>
    /\ raw.shape = samples.shape
    /\ \A k \in 1..Len(samples.v) :
          /\ ~IsNaN(samples.v[k])
          /\ samples.v[k] = IF IsNaN(raw.v[k]) THEN 1 ELSE raw.v[k]

\* C17: in effective_diameter every integrand sample that is undefined is
\* taken as 1, no NaN sample enters the trapezoidal sum, the diameter
\* returned for a finite beta is not NaN, and one diameter is returned for
\* each beta.
C17_IntegrandClamped ==
    last.op = "effective_diameter"
    => /\ ~IsRaise(last.ret)
       /\ last.ret.shape = <<Len(LastBeta.v)>>
       /\ Clamped(IntegrandTable[<<last.self.mie, LastBeta>>],
                  SampleTable[<<last.self.mie, LastBeta>>], Len(LastBeta.v))
       /\ \A i \in 1..Len(LastBeta.v) :
             IsFinite(LastBeta.v[i]) => ~IsNaN(last.ret.v[i])

C17_Witness ==
    /\ last.op = "effective_diameter"
    /\ LastBeta.shape = <<2>>
    /\ AllFinite(LastBeta)
    /\ LastBeta.v[1] # LastBeta.v[2]
    /\ ~IsRaise(last.ret)
    /\ last.ret.shape = <<2>>
    /\ AllFinite(last.ret)
    /\ last.ret.v[1] # last.ret.v[2]

\* The factors of one entry of the perturbation terms, on floats: the
\* reduced diameter x0 of one beta, the Sutherland term of one packing
\* fraction, and I, J and B of one exponent.
X0At(self, b) ==
    FDiv(self.segment_diameter, Mie_effective_diameter(self.mie, Vec(<<b>>)).v[1])
A1SAt(self, lambda, eta) ==
    Sutherland_first_order_perturbation_term(
        Sutherland(lambda, self.segment_diameter, self.potential_depth),
        Vec(<<eta>>)).v[1]
IAt(lambda, x0) == FNeg(FDiv(FSub(FPow(x0, 3 - lambda), 1), F(lambda - 3)))
JAt(lambda, x0) ==
    FNeg(FDiv(FSub(FSub(FMul(FPow(x0, 4 - lambda), F(lambda - 3)),
                        FMul(FPow(x0, 3 - lambda), F(lambda - 4))),
                   1),
              F((lambda - 3) * (lambda - 4))))
BAt(self, lambda, eta, x0) ==
    FMul(FMul(FMul(FMul(12, eta), self.potential_depth), BOLTZMANN),
         FSub(FMul(IAt(lambda, x0),
                   FDiv(FSub(1, FDiv(eta, 2)), FPow(FSub(1, eta), 3))),
              FMul(JAt(lambda, x0),
                   FDiv(FMul(FMul(9, eta), FAdd(1, eta)),
                        FMul(2, FPow(FSub(1, eta), 3))))))

\* x0 ** lambda * (a1S(lambda, eta) + B(lambda, eta, x0))
TermAt(self, lambda, eta, x0) ==
    FMul(FPow(x0, lambda), FAdd(A1SAt(self, lambda, eta), BAt(self, lambda, eta, x0)))

\* C * (x0^la * (a1S_a + B_a) - x0^lr * (a1S_r + B_r))
A1At(self, eta, x0) ==
    FMul(self.C,
         FSub(TermAt(self, self.attractive_exponent, eta, x0),
              TermAt(self, self.repulsive_exponent, eta, x0)))

\* Entry [i][j] of a matrix with n columns.
EntryOf(m, i, j, n) == m.v[(i - 1) * n + j]

\* C18: entry [i][j] of a returned first-order matrix is
\* C * (x0_i^la * (a1S_a(eta_j) + B_a(eta_j, x0_i))
\*      - x0_i^lr * (a1S_r(eta_j) + B_r(eta_j, x0_i)))
\* with eta_j the packing fraction of density[j], x0_i = sigma over the
\* effective diameter of beta[i], a1S the Sutherland term of the exponent
\* and B = 12 eta eps kB (I (1 - eta/2)/(1 - eta)^3
\*                        - J 9 eta (1 + eta)/(2 (1 - eta)^3)).
C18_FirstOrderFormula ==
    (IsFirstOrder /\ ~IsRaise(last.ret))
    => /\ Len(last.ret.v) = Len(LastBeta.v) * Len(LastDensity.v)
       /\ \A i \in 1..Len(LastBeta.v), j \in 1..Len(LastDensity.v) :
             EntryOf(last.ret, i, j, Len(LastDensity.v))
             = A1At(last.self, EtaAt(last.self.segment_diameter, LastDensity.v[j]),
                    X0At(last.self, LastBeta.v[i]))

C18_Witness ==
    /\ IsFirstOrder
    /\ last.self.attractive_exponent = 6
    /\ last.self.repulsive_exponent = 12
    /\ LastBeta.shape = <<2>>
    /\ LastDensity.shape = <<2>>
    /\ AllFinite(LastBeta)
    /\ AllFinite(LastDensity)
    /\ LastDensity.v[1] # 0
    /\ LastDensity.v[2] # 0
    /\ ~IsRaise(last.ret)
    /\ AllFinite(last.ret)
    /\ AllDistinct(last.ret)
    /\ last.ret.v[1] # 0

\* phi[r][k], r and k counted from 0.
PhiAt(r, k) == At2(Phi, r + 1, k + 1)

\* f_k(alpha): the polynomial of degree 3 in alpha with the coefficients of
\* rows 0 to 3 of phi, over 1 plus the polynomial with the coefficients of
\* rows 4 to 6 for alpha, alpha^2 and alpha^3.
FkAt(alpha, k) ==
    FDiv(FAdd(FAdd(FAdd(PhiAt(0, k), FMul(PhiAt(1, k), alpha)),
                   FMul(PhiAt(2, k), FPow(alpha, 2))),
              FMul(PhiAt(3, k), FPow(alpha, 3))),
         FAdd(1, FAdd(FAdd(FMul(PhiAt(4, k), alpha), FMul(PhiAt(5, k), FPow(alpha, 2))),
                      FMul(PhiAt(6, k), FPow(alpha, 3)))))

\* f0 z + f1 z^5 + f2 z^8 for z = eta * x0^3
ChiOf(alpha, z) ==
    FAdd(FAdd(FMul(FkAt(alpha, 0), z), FMul(FkAt(alpha, 1), FPow(z, 5))),
         FMul(FkAt(alpha, 2), FPow(z, 8)))
ChiAt(alpha, eta, x0) == ChiOf(alpha, FMul(eta, FPow(x0, 3)))

\* The alpha of the exponents 6 and 12, 4 * (1/3 - 1/9).
Alpha612 == FMul(4, FSub(FDiv(1, 3), FDiv(1, 9)))

\* C20: correction_factor(alpha, eta, x0) holds, for the packing fraction
\* eta_j in row j and the x0_i in column i,
\* f0 (eta_j x0_i^3) + f1 (eta_j x0_i^3)^5 + f2 (eta_j x0_i^3)^8, with f_k
\* the ratio built from the 7 x 6 phi table: rows 0 to 3 the numerator
\* coefficients, rows 4 to 6 the denominator coefficients after the
\* constant 1.
C20_CorrectionFactor ==
    last.op = "correction_factor"
    => /\ ~IsRaise(last.ret)
       /\ Phi.shape = <<7, 6>>
       /\ Len(last.ret.v) = Len(LastDensity.v) * Len(LastBeta.v)
       /\ (NDim(LastDensity) = 1 /\ NDim(LastBeta) = 1)
          => last.ret.shape = <<Len(LastDensity.v), Len(LastBeta.v)>>
       /\ \A j \in 1..Len(LastDensity.v), i \in 1..Len(LastBeta.v) :
             EntryOf(last.ret, j, i, Len(LastBeta.v))
             = ChiAt(Alpha612, LastDensity.v[j], LastBeta.v[i])

C20_Witness ==
    /\ last.op = "correction_factor"
    /\ LastDensity.shape = <<2>>
    /\ LastBeta.shape = <<2>>
    /\ AllFinite(LastDensity)
    /\ AllFinite(LastBeta)
    /\ LastDensity.v[1] # 0
    /\ LastDensity.v[2] # 0
    /\ ~IsRaise(last.ret)
    /\ last.ret.shape = <<2, 2>>
    /\ AllFinite(last.ret)
    /\ AllDistinct(last.ret)

\* The prefactor of a2 for one density and one x0:
\* 0.5 * K_hs * (1 + chi(alpha, eta, x0)) * eps * kB * C^2
A2Factor(self, alpha, eta, x0) ==
    FMul(FMul(FMul(FMul(Dec(5, 1), KhsAt(eta)), FAdd(1, ChiAt(alpha, eta, x0))),
              FMul(self.potential_depth, BOLTZMANN)),
         FPow(self.C, 2))

\* x0^(2 la) (a1S_2a + B_2a) - 2 x0^(la + lr) (a1S_ar + B_ar)
\*   + x0^(2 lr) (a1S_2r + B_2r)
A2Sum(self, eta, x0) ==
    FAdd(FSub(TermAt(self, 2 * self.attractive_exponent, eta, x0),
              FMul(2, TermAt(self, self.attractive_exponent + self.repulsive_exponent,
                             eta, x0))),
         TermAt(self, 2 * self.repulsive_exponent, eta, x0))

A2At(self, alpha, eta, x0) == FMul(A2Factor(self, alpha, eta, x0), A2Sum(self, eta, x0))

\* C19: entry [i][j] of a returned second-order matrix is
\* 0.5 K_hs(density[j]) (1 + chi(alpha, eta_j, x0_i)) eps kB C^2
\*   (x0_i^(2 la) (a1S_2a + B_2a) - 2 x0_i^(la + lr) (a1S_ar + B_ar)
\*    + x0_i^(2 lr) (a1S_2r + B_2r)),
\* the Sutherland and B terms taken at the exponents 2 la, la + lr and 2 lr,
\* at eta_j and x0_i, every factor at the same indices i and j.
C19_SecondOrderFormula ==
    (IsSecondOrder /\ ~IsRaise(last.ret))
    => /\ Len(last.ret.v) = Len(LastBeta.v) * Len(LastDensity.v)
       /\ \A i \in 1..Len(LastBeta.v), j \in 1..Len(LastDensity.v) :
             EntryOf(last.ret, i, j, Len(LastDensity.v))
             = A2At(last.self,
                    CS_alpha(last.self.attractive_exponent,
                             last.self.repulsive_exponent).v[1],
                    EtaAt(last.self.segment_diameter, LastDensity.v[j]),
                    X0At(last.self, LastBeta.v[i]))

C19_Witness ==
    /\ IsSecondOrder
    /\ last.self.attractive_exponent = 6
    /\ last.self.repulsive_exponent = 12
    /\ LastBeta.shape = <<2>>
    /\ LastDensity.shape = <<2>>
    /\ AllFinite(LastBeta)
    /\ AllFinite(LastDensity)
    /\ LastDensity.v[1] # 0
    /\ LastDensity.v[2] # 0
    /\ ~IsRaise(last.ret)
    /\ AllFinite(last.ret)
    /\ AllDistinct(last.ret)
    /\ last.ret.v[1] # 0

\* The step wrote a file: an export or a run that reached its export.
IsExport ==
    /\ last.op \in {"export", "run_simulation"}
    /\ ~IsRaise(last.ret)

\* The position of grid point (i, j) in row-major order.
GridIndex(i, j) == (i - 1) * Len(last.reader.density.v) + j

\* C15: Exporter.export writes exactly one record per grid point (i, j),
\* len(temperature) * len(density) records in all, for every temperature
\* and density sequence, repeated values included, and record (i, j)
\* holds temperature[i], density[j], a1[i][j] and a2[i][j].
C15_OneRecordPerGridPoint ==
    IsExport =>
        /\ Len(last.ret.records) =
               Len(last.reader.temperature.v) * Len(last.reader.density.v)
        /\ \A i \in 1..Len(last.reader.temperature.v) :
               \A j \in 1..Len(last.reader.density.v) :
                   /\ last.ret.records[GridIndex(i, j)].temperature =
                          last.reader.temperature.v[i]
                   /\ last.ret.records[GridIndex(i, j)].density =
                          last.reader.density.v[j]
                   /\ last.ret.records[GridIndex(i, j)].a1 = last.a1.v[GridIndex(i, j)]
                   /\ last.ret.records[GridIndex(i, j)].a2 = last.a2.v[GridIndex(i, j)]

\* A run of run_simulation that constructed its engine and so passed its
\* converted arrays to it.
IsRun ==
    /\ last.op = "run_simulation"
    /\ ~IsRaise(last.engine)

\* Molecules per cubic metre times segments per molecule, for a density
\* rho_kg in kg/m3.
SegmentsPerCubicMetre(reader, rho_kg) ==
    FMul(FMul(FDiv(FMul(rho_kg, F(1000)), reader.molar_mass), AVOGADRO), reader.ms)

\* beta passed to the engine is 1/(kB*T) for every configured temperature.
BetaPassed ==
    /\ the_beta.shape = last.reader.temperature.shape
    /\ \A i \in 1..Len(last.reader.temperature.v) :
           the_beta.v[i] = FDiv(1, FMul(BOLTZMANN, last.reader.temperature.v[i]))

\* C16 as stated: the density run_simulation passes to the engine is
\* rho_kg * 1000 / molar_mass * N_A * ms * (sigma * 1e-10)^3 and the beta
\* is 1/(kB*T), for every configured temperature and density.
C16_DensityWithDiameterCubed ==
    IsRun =>
        /\ BetaPassed
        /\ the_density.shape = last.reader.density.shape
        /\ \A j \in 1..Len(last.reader.density.v) :
               the_density.v[j] =
                   FMul(SegmentsPerCubicMetre(last.reader, last.reader.density.v[j]),
                        FPow(FMul(last.reader.segment_diameter, Dec(1, 10)), 3))

\* C16, amended: the density run_simulation passes to the engine is
\* rho_kg * 1000 / molar_mass * N_A * ms * (1e-10)^3, segments per cubic
\* angstrom with no factor sigma^3, and the beta is 1/(kB*T), for every
\* configured temperature and density.
C16_SegmentsPerCubicAngstrom ==
    IsRun =>
        /\ BetaPassed
        /\ the_density.shape = last.reader.density.shape
        /\ \A j \in 1..Len(last.reader.density.v) :
               the_density.v[j] =
                   FMul(SegmentsPerCubicMetre(last.reader, last.reader.density.v[j]),
                        FPow(Dec(1, 10), 3))

\* A run over two temperatures and two different densities whose engine
\* was constructed and whose terms were exported.
C16_Witness ==
    /\ IsRun
    /\ ~IsRaise(last.ret)
    /\ Len(the_beta.v) = 2
    /\ Len(the_density.v) = 2
    /\ the_density.v[1] # the_density.v[2]
    /\ last.a1.shape = <<2, 2>>

\* Exponents for which alpha is defined: different, the attractive one not
\* 0, and neither equal to 3.
AlphaDefined(lambda_a, lambda_r) ==
    /\ lambda_a # lambda_r
    /\ lambda_a # 0
    /\ lambda_a # 3
    /\ lambda_r # 3

\* c * (1/(lambda_a - 3) - 1/(lambda_r - 3))
AlphaFrom(c, lambda_a, lambda_r) ==
    FMul(c, FSub(FDiv(1, F(lambda_a - 3)), FDiv(1, F(lambda_r - 3))))

\* C21: CarnahanStarling.alpha(lambda_a, lambda_r) returns the single
\* scalar C * (1/(lambda_a - 3) - 1/(lambda_r - 3)) with C the prefactor of
\* the Mie object of the same two exponents, whatever its diameter and
\* depth; the exponents 6 and 12 give 4 * (1/3 - 1/9) = 8/9; and the alpha
\* that second_order_perturbation_term computes from the engine's
\* exponents is that expression with the engine's own C.
C21_AlphaConsistentWithC ==
    /\ (last.op = "alpha" /\ AlphaDefined(last.exponents[1], last.exponents[2]))
       => /\ ~IsRaise(last.ret)
          /\ last.ret.shape = <<>>
          /\ Len(last.ret.v) = 1
          /\ \A sigma \in Diameters, epsilon \in Depths :
                 last.ret.v[1] =
                     AlphaFrom(Mie(last.exponents[1], last.exponents[2],
                                   sigma, epsilon).C,
                               last.exponents[1], last.exponents[2])
          /\ last.exponents = <<6, 12>> => last.ret.v[1] = FDiv(8, 9)
    /\ (IsSecondOrder /\ AlphaDefined(last.self.attractive_exponent,
                                      last.self.repulsive_exponent))
       => CS_alpha(last.self.attractive_exponent, last.self.repulsive_exponent) =
              Scalar(AlphaFrom(last.self.C, last.self.attractive_exponent,
                               last.self.repulsive_exponent))

\* alpha was called with the exponents 6 and 12 and returned 8/9.
C21_Witness ==
    /\ last.op = "alpha"
    /\ last.exponents = <<6, 12>>
    /\ ~IsRaise(last.ret)
    /\ last.ret.v[1] = FDiv(8, 9)
    /\ last.ret.v[1] = FMul(4, FSub(FDiv(1, 3), FDiv(1, 9)))

\* The Mie potential at the distance r with the Boltzmann constant kB:
\* C epsilon kB ((sigma / r)^lambda_r - (sigma / r)^lambda_a).
PotentialWith(kB, mie, r) ==
    FMul(FMul(FMul(mie.C, mie.potential_depth), kB),
         FSub(FPow(FDiv(mie.segment_diameter, r), mie.repulsive_power),
              FPow(FDiv(mie.segment_diameter, r), mie.attractive_power)))

\* C22: one Boltzmann constant is used everywhere: the potential that
\* Mie.potential returns at every finite non-zero distance (the potential
\* behind effective_diameter and x0) is the Mie potential with the
\* process-wide BOLTZMANN, the constant of the Sutherland term, of the
\* engine's B term and a2 prefactor, of the caller's beta = 1/(kB T) and
\* of the exporter's reductions.
C22_OneBoltzmannConstant ==
    (last.op = "potential" /\ ~IsRaise(last.ret))
    => \A k \in 1..Len(last.ret.v) :
           (IsFinite(LastDensity.v[k]) /\ LastDensity.v[k] # 0)
           => last.ret.v[k] = PotentialWith(BOLTZMANN, last.self.mie, LastDensity.v[k])

=============================================================================
